---- MODULE Spec2Model ----
(***************************************************************************)
(* Phugoid flight path (Lanchester model): radius_of_curvature, rotate and *)
(* the marching loop of plot_flight_path, over a binary floating-point     *)
(* format with the IEEE-754 special values (signed zero, subnormals,       *)
(* infinities, NaN, round to nearest even).  The format is binary64        *)
(* narrowed to Prec significand bits and a largest magnitude MaxMag, so    *)
(* that rounding, absorption, underflow and overflow all occur within the  *)
(* checked range.  A Python float and a numpy.float64 hold the same        *)
(* numbers but differ in how division by zero, overflow of ** and a        *)
(* negative base of ** are reported, so every value carries its type.      *)
(***************************************************************************)
EXTENDS Integers, Sequences, FiniteSets

\* ------------------------------------------------------------ the format
\* A finite float is (-1)^s * m / Unit with m representable: fewer than
\* Prec significant bits below 2^Prec units (subnormals and the first
\* binade), a Prec-bit significand times a power of two above.
Prec == 5
Unit == 64
MaxExp == 10
MaxMag == (2 ^ Prec - 1) * 2 ^ MaxExp
MinNormal == 2 ^ (Prec - 1)

NaN == [k |-> "nan", s |-> 0, m |-> 0]
Inf(s) == [k |-> "inf", s |-> s, m |-> 0]
Fin(s, m) == [k |-> "fin", s |-> s, m |-> m]

IsNaN(a) == a.k = "nan"
IsInf(a) == a.k = "inf"
IsFinite(a) == a.k = "fin"
IsZero(a) == a.k = "fin" /\ a.m = 0
Abs(n) == IF n < 0 THEN 0 - n ELSE n
Signed(a) == IF a.s = 1 THEN 0 - a.m ELSE a.m
SignXor(a, b) == (a.s + b.s) % 2

\* The spacing of the floats around the magnitude q (in units).
RECURSIVE Ulp(_)
Ulp(q) == IF q < 2 ^ Prec THEN 1 ELSE 2 * Ulp(q \div 2)

\* The position of the representable magnitude n among the magnitudes.
RECURSIVE Ord(_)
Ord(n) == IF n < 2 ^ Prec THEN n ELSE MinNormal + Ord(n \div 2)

Representable(n) == n >= 0 /\ n <= MaxMag /\ n % Ulp(n) = 0

\* The representable magnitude nearest to a/b units, ties to even; it may
\* exceed MaxMag, which is overflow.
RoundMag(a, b) ==
  LET q == a \div b
      u == Ulp(q)
      lo == (q \div u) * u
      rem2 == 2 * (a - lo * b)
      half == u * b
  IN  IF rem2 < half THEN lo
      ELSE IF rem2 > half THEN lo + u
      ELSE IF (lo \div u) % 2 = 0 THEN lo ELSE lo + u

Rnd(s, a, b) ==
  LET r == RoundMag(a, b)
  IN  IF r > MaxMag THEN Inf(s) ELSE Fin(s, r)

\* IEEE-754 equality: NaN equals nothing, +0 equals -0.
FEq(a, b) ==
  /\ ~IsNaN(a)
  /\ ~IsNaN(b)
  /\ \/ a = b
     \/ IsZero(a) /\ IsZero(b)

FNeg(a) == IF IsNaN(a) THEN NaN ELSE [a EXCEPT !.s = 1 - a.s]

FAdd(a, b) ==
  IF IsNaN(a) \/ IsNaN(b) THEN NaN
  ELSE IF IsInf(a) THEN (IF IsInf(b) /\ b.s # a.s THEN NaN ELSE a)
  ELSE IF IsInf(b) THEN b
  ELSE LET t == Signed(a) + Signed(b)
       IN  IF t = 0 THEN Fin(IF a.s = 1 /\ b.s = 1 THEN 1 ELSE 0, 0)
           ELSE Rnd(IF t < 0 THEN 1 ELSE 0, Abs(t), 1)

FSub(a, b) == FAdd(a, FNeg(b))

FMul(a, b) ==
  IF IsNaN(a) \/ IsNaN(b) THEN NaN
  ELSE IF IsInf(a) \/ IsInf(b)
       THEN (IF IsZero(a) \/ IsZero(b) THEN NaN ELSE Inf(SignXor(a, b)))
  ELSE Rnd(SignXor(a, b), a.m * b.m, Unit)

FDiv(a, b) ==
  IF IsNaN(a) \/ IsNaN(b) THEN NaN
  ELSE IF IsInf(a) THEN (IF IsInf(b) THEN NaN ELSE Inf(SignXor(a, b)))
  ELSE IF IsInf(b) THEN Fin(SignXor(a, b), 0)
  ELSE IF IsZero(b) THEN (IF IsZero(a) THEN NaN ELSE Inf(SignXor(a, b)))
  ELSE Rnd(SignXor(a, b), a.m * Unit, b.m)

\* libm's cos, sin and pow on the format: the correctly rounded value of
\* the real function at each representable magnitude, in units, listed in
\* the order of the magnitudes; -1 marks a result above MaxMag.
CosTab ==
  <<
     64, 64, 64, 64, 64, 64, 64, 64, 64, 64, 64, 64, 62, 62, 62, 62,
     62, 62, 62, 62, 60, 60, 60, 60, 60, 60, 58, 58, 58, 58, 58, 56,
     56, 56, 54, 54, 52, 50, 50, 48, 46, 46, 44, 42, 42, 40, 38, 36,
     34, 31, 28, 24, 20, 16, 12, 9, 5, 1, -3, -7, -11, -15, -19, -23,
     -27, -34, -40, -46, -52, -56, -60, -62, -64, -64, -64, -62, -60, -56, -52, -48,
     -42, -29, -13, 2, 18, 32, 46, 56, 62, 64, 62, 58, 48, 36, 22, 7,
     -9, -38, -58, -64, -54, -30, 0, 31, 54, 64, 58, 38, 9, -23, -48, -62,
     -62, -18, 42, 64, 26, -36, -64, -34, 27, 64, 42, -19, -62, -48, 10, 58,
     54, -54, -8, 62, -42, -26, 64, -28, -40, 62, -10, -54, 54, 8, -60, 44,
     25, 28, -62, 52, -7, -44, 64, -40, -12, 56, -60, 24, 29, -62, 52, -6,
     -44, -40, 56, 23, -62, -5, 64, -14, -60, 31, 50, -46, -38, 56, 21, -62,
     -3, -16, 34, -48, 58, -64, 64, -58, 48, -34, 17, 2, -20, 36, -50, 60
  >>
SinTab ==
  <<
     0, 1, 2, 3, 4, 5, 6, 7, 8, 9, 10, 11, 12, 13, 14, 15,
     16, 17, 18, 19, 20, 21, 22, 23, 23, 24, 25, 26, 27, 28, 29, 30,
     31, 32, 34, 36, 38, 40, 40, 42, 44, 46, 46, 48, 50, 50, 52, 52,
     54, 56, 58, 60, 60, 62, 62, 64, 64, 64, 64, 64, 62, 62, 62, 60,
     58, 54, 50, 44, 38, 32, 24, 17, 9, 1, -7, -15, -22, -30, -36, -42,
     -48, -58, -62, -64, -62, -54, -46, -32, -18, -2, 14, 29, 42, 52, 60, 64,
     64, 52, 26, -5, -34, -56, -64, -56, -34, -4, 27, 52, 64, 60, 42, 13,
     -18, -62, -48, 10, 58, 54, -1, -54, -58, -8, 48, 62, 17, -42, -64, -26,
     36, 34, -64, 19, 48, -58, 1, 58, -50, -17, 64, -36, -34, 64, -20, -48,
     58, -58, 16, 36, -64, 46, 2, -50, 62, -32, -21, 60, -56, 15, 38, -64,
     46, -50, -31, 60, 14, -64, 5, 62, -23, -56, 38, 44, -52, -29, 60, 12,
     -64, 62, -54, 42, -27, 10, 9, -27, 42, -54, 62, -64, 60, -52, 40, -23
  >>
Pow15Tab ==
  <<
     0, 0, 0, 1, 1, 1, 2, 2, 3, 3, 4, 5, 5, 6, 7, 7,
     8, 9, 10, 10, 11, 12, 13, 14, 15, 16, 17, 18, 19, 20, 21, 22,
     23, 25, 27, 29, 32, 34, 36, 38, 42, 44, 46, 50, 52, 56, 58, 62,
     64, 72, 76, 84, 88, 96, 104, 112, 116, 124, 136, 144, 152, 160, 168, 176,
     184, 200, 216, 232, 256, 272, 288, 304, 336, 352, 368, 400, 416, 448, 464, 496,
     512, 576, 608, 672, 704, 768, 832, 896, 928, 992, 1088, 1152, 1216, 1280, 1344, 1408,
     1472, 1600, 1728, 1856, 2048, 2176, 2304, 2432, 2688, 2816, 2944, 3200, 3328, 3584, 3712, 3968,
     4096, 4608, 4864, 5376, 5632, 6144, 6656, 7168, 7424, 7936, 8704, 9216, 9728, 10240, 10752, 11264,
     11776, 12800, 13824, 14848, 16384, 17408, 18432, 19456, 21504, 22528, 23552, 25600, 26624, 28672, 29696, 31744,
     -1, -1, -1, -1, -1, -1, -1, -1, -1, -1, -1, -1, -1, -1, -1, -1,
     -1, -1, -1, -1, -1, -1, -1, -1, -1, -1, -1, -1, -1, -1, -1, -1,
     -1, -1, -1, -1, -1, -1, -1, -1, -1, -1, -1, -1, -1, -1, -1, -1
  >>
PowHalfTab ==
  <<
     0, 8, 11, 14, 16, 18, 20, 21, 23, 24, 25, 27, 28, 29, 30, 31,
     32, 32, 34, 34, 36, 36, 38, 38, 40, 40, 40, 42, 42, 44, 44, 44,
     46, 46, 48, 50, 50, 52, 54, 54, 56, 56, 58, 58, 60, 60, 62, 62,
     64, 64, 68, 68, 72, 72, 76, 76, 80, 80, 80, 84, 84, 88, 88, 88,
     92, 92, 96, 100, 100, 104, 108, 108, 112, 112, 116, 116, 120, 120, 124, 124,
     128, 128, 136, 136, 144, 144, 152, 152, 160, 160, 160, 168, 168, 176, 176, 176,
     184, 184, 192, 200, 200, 208, 216, 216, 224, 224, 232, 232, 240, 240, 248, 248,
     256, 256, 272, 272, 288, 288, 304, 304, 320, 320, 320, 336, 336, 352, 352, 352,
     368, 368, 384, 400, 400, 416, 432, 432, 448, 448, 464, 464, 480, 480, 496, 496,
     512, 512, 544, 544, 576, 576, 608, 608, 640, 640, 640, 672, 672, 704, 704, 704,
     736, 736, 768, 800, 800, 832, 864, 864, 896, 896, 928, 928, 960, 960, 992, 992,
     1024, 1024, 1088, 1088, 1152, 1152, 1216, 1216, 1280, 1280, 1280, 1344, 1344, 1408, 1408, 1408
  >>

TabMag(tab, a) == tab[Ord(a.m) + 1]

FCos(a) ==
  IF ~IsFinite(a) THEN NaN
  ELSE LET v == TabMag(CosTab, a)
       IN  Fin(IF v < 0 THEN 1 ELSE 0, Abs(v))

FSin(a) ==
  IF ~IsFinite(a) THEN NaN
  ELSE LET v == TabMag(SinTab, a)
       IN  IF v = 0 THEN Fin(a.s, 0)
           ELSE Fin((a.s + (IF v < 0 THEN 1 ELSE 0)) % 2, Abs(v))

\* C's pow(a, e) for the two exponents the program uses, 1.5 and .5: a
\* negative finite base is invalid (NaN), pow(-0, e) = +0, pow(-inf, e) = +inf.
PowTab(e) == IF e.m = (3 * Unit) \div 2 THEN Pow15Tab ELSE PowHalfTab

PowOverflows(a, e) == IsFinite(a) /\ a.s = 0 /\ TabMag(PowTab(e), a) < 0

FPow(a, e) ==
  IF IsNaN(a) THEN NaN
  ELSE IF IsInf(a) THEN Inf(0)
  ELSE IF IsZero(a) THEN Fin(0, 0)
  ELSE IF a.s = 1 THEN NaN
  ELSE IF PowOverflows(a, e) THEN Inf(0)
  ELSE Fin(0, TabMag(PowTab(e), a))

\* --------------------------------------------- Python and numpy scalars
\* t: "py" a Python float, "np" a numpy.float64, "cx" a Python complex
\* (its value is not followed), "exc" a raised exception, "none" unbound.
Py(f) == [t |-> "py", f |-> f]
Np(f) == [t |-> "np", f |-> f]
Cx == [t |-> "cx", f |-> NaN]
Exc == [t |-> "exc", f |-> NaN]
None == [t |-> "none", f |-> NaN]

\* The value of an expression computed once: Python evaluates an operand,
\* an argument or the right side of an assignment once, and the name bound
\* to it in {e : v \in {value}} stands for that value.
Only(S) == CHOOSE v \in S : TRUE

\* A float literal n/d of the source text.
PyFloat(n, d) == Py(Rnd(0, n * Unit, d))

numpy_pi == Py(Rnd(0, 355 * Unit, 113))

\* Variant: numpy.seterr(all='raise').
seterr_raise == "raise"

\* numpy.seterr(all='ignore'): the floating-point error state of numpy.
seterr == "ignore"

\* The IEEE exception flags (invalid, divide by zero, overflow) an
\* operation with operands ops and result r signals.
Signals(r, ops) ==
  \/ IsNaN(r) /\ \A o \in ops : ~IsNaN(o)
  \/ IsInf(r) /\ \A o \in ops : IsFinite(o)

NpResult(r, ops) ==
  IF seterr = "raise" /\ Signals(r, ops) THEN Exc ELSE Np(r)

IEEE(op, a, b) ==
  CASE op = "+" -> FAdd(a, b)
    [] op = "-" -> FSub(a, b)
    [] op = "*" -> FMul(a, b)
    [] op = "/" -> FDiv(a, b)

\* a op b: a raised exception ends the evaluation; two Python floats use
\* float's own operators (ZeroDivisionError on a zero divisor); with a
\* numpy.float64 on either side numpy computes under its error state.
BinOp(op, a, b) ==
  IF a.t = "exc" \/ b.t = "exc" THEN Exc
  ELSE IF a.t = "cx" \/ b.t = "cx" THEN Cx
  ELSE IF a.t = "py" /\ b.t = "py"
       THEN (IF op = "/" /\ IsZero(b.f) THEN Exc ELSE Py(IEEE(op, a.f, b.f)))
  ELSE NpResult(IEEE(op, a.f, b.f), {a.f, b.f})

\* Both operands are evaluated, then the operator is applied.
Arith(op, left, right) ==
  Only({BinOp(op, a, b) : a \in {left}, b \in {right}})

Add(a, b) == Arith("+", a, b)
Sub(a, b) == Arith("-", a, b)
Mul(a, b) == Arith("*", a, b)
Div(a, b) == Arith("/", a, b)

Neg(operand) ==
  Only({IF a.t \in {"exc", "cx"} THEN a ELSE [a EXCEPT !.f = FNeg(a.f)]
        : a \in {operand}})

\* a ** e with e a Python float literal: float.__pow__ returns a complex
\* for a negative finite base and raises OverflowError; numpy's power is
\* C's pow under the error state.
PowOp(a, e) ==
  IF a.t = "exc" THEN Exc
  ELSE IF a.t = "cx" THEN Cx
  ELSE IF a.t = "py"
       THEN (IF IsFinite(a.f) /\ a.f.s = 1 /\ a.f.m > 0 THEN Cx
             ELSE IF PowOverflows(a.f, e.f) THEN Exc
             ELSE Py(FPow(a.f, e.f)))
  ELSE NpResult(FPow(a.f, e.f), {a.f})

Pow(base, e) == Only({PowOp(a, e) : a \in {base}})

\* numpy.cos and numpy.sin of a scalar.
CosOp(a) ==
  IF a.t = "exc" THEN Exc
  ELSE IF a.t = "cx" THEN Cx
  ELSE NpResult(FCos(a.f), {a.f})

SinOp(a) ==
  IF a.t = "exc" THEN Exc
  ELSE IF a.t = "cx" THEN Cx
  ELSE NpResult(FSin(a.f), {a.f})

cos(angle) == Only({CosOp(a) : a \in {angle}})

sin(angle) == Only({SinOp(a) : a \in {angle}})

\* ------------------------------------------------------- the functions
\* Variant: 1/3 taken as an integer division, which is 0.
radius_int_division(z, zt, C) ==
  Div(zt, Sub(PyFloat(0, 1),
              Mul(Div(C, PyFloat(2, 1)), Pow(Div(zt, z), PyFloat(3, 2)))))

radius_of_curvature(z, zt, C) ==
  Div(zt, Sub(Div(PyFloat(1, 1), PyFloat(3, 1)),
              Mul(Div(C, PyFloat(2, 1)), Pow(Div(zt, z), PyFloat(3, 2)))))

\* Variant: the sine and the cosine exchanged.
rotate_cos_sin_swapped(x, z, xCenter, zCenter, angle) ==
  LET dx == Sub(x, xCenter)
      dz == Sub(z, zCenter)
      xNew == Add(Mul(dx, sin(angle)), Mul(dz, cos(angle)))
      zNew == Add(Mul(Neg(dx), cos(angle)), Mul(dz, sin(angle)))
  IN  <<Add(xCenter, xNew), Add(zCenter, zNew)>>

\* Variant: the signs of the two cross terms exchanged.
rotate_signs_swapped(x, z, xCenter, zCenter, angle) ==
  LET dx == Sub(x, xCenter)
      dz == Sub(z, zCenter)
      xNew == Add(Mul(dx, cos(angle)), Mul(Neg(dz), sin(angle)))
      zNew == Add(Mul(dx, sin(angle)), Mul(dz, cos(angle)))
  IN  <<Add(xCenter, xNew), Add(zCenter, zNew)>>

rotate(x, z, xCenter, zCenter, angle) ==
  LET dx == Sub(x, xCenter)
      dz == Sub(z, zCenter)
      xNew == Add(Mul(dx, cos(angle)), Mul(dz, sin(angle)))
      zNew == Add(Mul(Neg(dx), sin(angle)), Mul(dz, cos(angle)))
  IN  <<Add(xCenter, xNew), Add(zCenter, zNew)>>

\* --------------------------------------------------- plot_flight_path
N == 1000

\* Variant: one element short.
zeros_short(n) == [k \in 0 .. n - 2 |-> Fin(0, 0)]

zeros(n) == [k \in 0 .. n - 1 |-> Fin(0, 0)]

\* Variant: the store lands one element early.
setitem_prev(arr, k, v) ==
  IF k = 0 THEN [arr EXCEPT ![k] = v.f] ELSE [arr EXCEPT ![k - 1] = v.f]

\* arr[k] = v: the value is stored as a float64.
setitem(arr, k, v) == [arr EXCEPT ![k] = v.f]

\* arr[k]: a numpy.float64 scalar.
getitem(arr, k) == Np(arr[k])

Raises(v) == v.t \in {"exc", "cx"}

\* Variant: the sine of the heading in place of its cosine.
integration_constant_sin(th, z_0, trim) ==
  Mul(Sub(sin(th), Div(Mul(Div(PyFloat(1, 1), PyFloat(3, 1)), z_0), trim)),
      Pow(Div(z_0, trim), PyFloat(1, 2)))

\* C = (numpy.cos(theta) - 1./3.*z[0]/zt)*(z[0]/zt)**.5
integration_constant(th, z_0, trim) ==
  Mul(Sub(cos(th), Div(Mul(Div(PyFloat(1, 1), PyFloat(3, 1)), z_0), trim)),
      Pow(Div(z_0, trim), PyFloat(1, 2)))

\* Variant: the heading is advanced before the normal is taken.
LoopBody_heading_first(xp, zp, th, c, trim, step) ==
  Only({Only({Only({
    [p |-> rotate(xp, zp, center[1], center[2], dtheta),
     theta |-> Add(th, dtheta), R |-> radius]
    : center \in {<<Add(xp, Mul(normal[1], radius)),
                    Add(zp, Mul(normal[2], radius))>>}})
    : dtheta \in {Div(step, radius)},
      normal \in {<<cos(Add(Add(th, Div(step, radius)),
                            Div(numpy_pi, PyFloat(2, 1)))),
                    Neg(sin(Add(Add(th, Div(step, radius)),
                                Div(numpy_pi, PyFloat(2, 1)))))>>}})
    : radius \in {radius_of_curvature(zp, trim, c)}})

\* Lines 96-101 from the previous point (xp, zp) and the heading th: the
\* normal, R, the centre, the angular step, the new point and heading.
\* Read from the innermost line outwards: each name is bound once, to the
\* value of the right side of its assignment.
LoopBody(xp, zp, th, c, trim, step) ==
  Only({Only({
    [p |-> rotate(xp, zp, center[1], center[2], dtheta),
     theta |-> Add(th, dtheta), R |-> radius]
    : center \in {<<Add(xp, Mul(normal[1], radius)),
                    Add(zp, Mul(normal[2], radius))>>},
      dtheta \in {Div(step, radius)}})
    : normal \in {<<cos(Add(th, Div(numpy_pi, PyFloat(2, 1)))),
                    Neg(sin(Add(th, Div(numpy_pi, PyFloat(2, 1)))))>>},
      radius \in {radius_of_curvature(zp, trim, c)}})

\* Variant: a point that is not finite is not stored.
Iterate_skip_nan(xs, zs, th, c, trim, step, k) ==
  Only({
    LET skip == ~IsFinite(b.p[1].f) \/ ~IsFinite(b.p[2].f)
    IN  [x |-> IF skip THEN xs ELSE setitem(xs, k, b.p[1]),
         z |-> IF skip THEN zs ELSE setitem(zs, k, b.p[2]),
         theta |-> b.theta, R |-> b.R,
         raised |-> Raises(b.p[1]) \/ Raises(b.p[2]) \/ Raises(b.theta)]
    : b \in {LoopBody(getitem(xs, k - 1), getitem(zs, k - 1), th, c, trim,
                      step)}})

\* One pass of the loop with index k over the arrays xs and zs.
Iterate(xs, zs, th, c, trim, step, k) ==
  Only({
    [x |-> setitem(xs, k, b.p[1]), z |-> setitem(zs, k, b.p[2]),
     theta |-> b.theta, R |-> b.R,
     raised |-> Raises(b.p[1]) \/ Raises(b.p[2]) \/ Raises(b.theta)]
    : b \in {LoopBody(getitem(xs, k - 1), getitem(zs, k - 1), th, c, trim,
                      step)}})

VARIABLES pc, zt, z0, theta0, x, z, theta, C, ds, i, R, rFinite, call

vars == <<pc, zt, z0, theta0, x, z, theta, C, ds, i, R, rFinite, call>>

\* The argument values tried, a Python float each.
MaxZt == 3
MaxZ0 == 6
MaxTheta0 == 2

ZtSamples ==
  <<Fin(0, Unit), Fin(0, 0), Fin(1, Unit), Fin(0, 1), Fin(0, 2 * Unit),
    Fin(0, 3 * Unit)>>

Z0Samples ==
  <<Fin(0, Unit), Fin(0, 1), Fin(0, 0), Fin(0, 6 * Unit), Inf(0), NaN,
    Fin(1, Unit), Fin(0, 2 * Unit), Fin(0, Unit + 20)>>

Theta0Samples ==
  <<Fin(0, 0), Fin(0, Unit), Fin(0, 3 * Unit), Fin(1, Unit)>>

Take(seq, n) == {seq[k] : k \in 1 .. (IF n < Len(seq) THEN n ELSE Len(seq))}

\* No helper has been called.
NoCall == [fn |-> "none", args |-> <<>>, ret |-> None]

\* The call plot_flight_path(zt, z0, theta0) is about to run.
Init ==
  /\ pc = "call"
  /\ zt \in {Py(f) : f \in Take(ZtSamples, MaxZt)}
  /\ z0 \in {Py(f) : f \in Take(Z0Samples, MaxZ0)}
  /\ theta0 \in {Py(f) : f \in Take(Theta0Samples, MaxTheta0)}
  /\ x = <<>>
  /\ z = <<>>
  /\ theta = None
  /\ C = None
  /\ ds = None
  /\ i = 0
  /\ R = None
  /\ rFinite = TRUE
  /\ call = NoCall

\* Lines 78-91: the arrays, the initial conditions, C and ds.
Setup ==
  /\ pc = "call"
  /\ \E z1 \in {setitem(zeros(N), 0, z0)},
        x1 \in {setitem(zeros(N), 0, PyFloat(0, 1))} :
     \E c \in {integration_constant(theta0, getitem(z1, 0), zt)} :
         /\ z' = z1
         /\ x' = x1
         /\ theta' = theta0
         /\ C' = c
         /\ ds' = PyFloat(1, 1)
         /\ i' = 1
         /\ pc' = IF Raises(z0) \/ Raises(c) THEN "raised" ELSE "loop"
  /\ UNCHANGED <<zt, z0, theta0, R, rFinite, call>>

\* Lines 94-101: the loop body for index i.
Step ==
  /\ pc = "loop"
  /\ i < N
  /\ \E it \in {Iterate(x, z, theta, C, zt, ds, i)} :
         /\ x' = it.x
         /\ z' = it.z
         /\ theta' = it.theta
         /\ R' = it.R
         /\ rFinite' = (rFinite /\ it.R.t = "np" /\ IsFinite(it.R.f))
         /\ pc' = IF it.raised THEN "raised" ELSE "loop"
         /\ i' = i + 1
  /\ UNCHANGED <<zt, z0, theta0, C, ds, call>>

\* range(1, N) is exhausted: the path goes to the plot.
Finish ==
  /\ pc = "loop"
  /\ i = N
  /\ pc' = "done"
  /\ UNCHANGED <<zt, z0, theta0, x, z, theta, C, ds, i, R, rFinite, call>>

Next == Setup \/ Step \/ Finish

Spec == Init /\ [][Next]_vars

\* ------------------------------------------- calls of the two helpers
\* Every finite float of the format.
Magnitudes == {m * 2 ^ e : m \in 0 .. 2 ^ Prec - 1, e \in 0 .. MaxExp}
Finites == {Fin(s, m) : s \in {0, 1}, m \in Magnitudes}

MaxPoint == 6
MaxAngle == 3
MaxDepth == 5
MaxC == 3

PointSamples ==
  <<Fin(0, 0), Fin(0, Unit), Fin(0, 2 * Unit), Fin(1, Unit), Fin(0, MaxMag),
    Fin(1, MaxMag), Fin(0, 1), Fin(0, 33 * Unit)>>

AngleSamples ==
  <<Fin(0, 0), Div(numpy_pi, PyFloat(2, 1)).f, Fin(0, Unit),
    Fin(1, 0), Fin(1, Unit)>>

DepthSamples ==
  <<Fin(0, Unit), Fin(0, 0), Fin(1, Unit), Fin(0, 1), Fin(0, MaxMag),
    Fin(1, 0), Fin(0, 2 * Unit)>>

CSamples ==
  <<Fin(0, 0), Fin(0, Unit \div 2), Fin(1, Unit), Fin(0, MaxMag), Inf(0)>>

Scalars(S) == {Py(f) : f \in S} \cup {Np(f) : f \in S}

InitPure ==
  /\ pc = "idle"
  /\ zt = None
  /\ z0 = None
  /\ theta0 = None
  /\ x = <<>>
  /\ z = <<>>
  /\ theta = None
  /\ C = None
  /\ ds = None
  /\ i = 0
  /\ R = None
  /\ rFinite = TRUE
  /\ call = NoCall

Idle == <<zt, z0, theta0, x, z, theta, C, ds, i, R, rFinite>>

\* rotate(x, z, xCenter, zCenter, angle) on Python floats.
CallRotate ==
  /\ pc = "idle"
  /\ \E px \in Take(PointSamples, MaxPoint), pz \in Take(PointSamples, MaxPoint),
        cx \in Take(PointSamples, MaxPoint), cz \in Take(PointSamples, MaxPoint),
        a \in Take(AngleSamples, MaxAngle) :
       call' = [fn |-> "rotate",
                args |-> <<Py(px), Py(pz), Py(cx), Py(cz), Py(a)>>,
                ret |-> rotate(Py(px), Py(pz), Py(cx), Py(cz), Py(a))]
  /\ pc' = "returned"
  /\ UNCHANGED Idle

\* radius_of_curvature(z, zt, C) on Python floats and numpy.float64s.
CallRadius ==
  /\ pc = "idle"
  /\ \E d \in Scalars(Take(DepthSamples, MaxDepth)),
        t \in Scalars(Take(DepthSamples, MaxDepth)),
        c \in Scalars(Take(CSamples, MaxC)) :
       call' = [fn |-> "radius_of_curvature", args |-> <<d, t, c>>,
                ret |-> radius_of_curvature(d, t, c)]
  /\ pc' = "returned"
  /\ UNCHANGED Idle

\* radius_of_curvature(zt, zt, 0) at every nonzero finite zt.
CallRadiusAtTrim ==
  /\ pc = "idle"
  /\ \E f \in Finites, d \in {"py", "np"}, t \in {"py", "np"} :
       /\ f.m # 0
       /\ call' = [fn |-> "radius_at_trim",
                   args |-> <<[t |-> d, f |-> f], [t |-> t, f |-> f],
                              PyFloat(0, 1)>>,
                   ret |-> radius_of_curvature([t |-> d, f |-> f],
                                               [t |-> t, f |-> f],
                                               PyFloat(0, 1))]
  /\ pc' = "returned"
  /\ UNCHANGED Idle

\* Line 89 at z0 == zt and theta0 == 0, for every nonzero finite zt.
CallConstantAtTrim ==
  /\ pc = "idle"
  /\ \E f \in Finites :
       /\ f.m # 0
       /\ call' = [fn |-> "integration_constant",
                   args |-> <<PyFloat(0, 1), Np(f), Py(f)>>,
                   ret |-> integration_constant(PyFloat(0, 1), Np(f), Py(f))]
  /\ pc' = "returned"
  /\ UNCHANGED Idle

NextPure == CallRotate \/ CallRadius \/ CallRadiusAtTrim \/ CallConstantAtTrim

SpecPure == InitPure /\ [][NextPure]_vars

\* ------------------------------------------------------------ properties
Length(arr) == Cardinality(DOMAIN arr)
Running == pc \in {"loop", "done"}
Returned(v) == v.t \in {"py", "np"}

\* The same float, or two floats that compare equal.
Same(a, b) == a = b \/ FEq(a, b)

\* The position of a float on the line of floats, and adjacency on it.
FIdx(a) ==
  LET o == IF IsInf(a) THEN Ord(MaxMag) + 1 ELSE Ord(a.m)
  IN  IF a.s = 1 THEN 0 - o ELSE o

Within1Ulp(a, b) == ~IsNaN(a) /\ ~IsNaN(b) /\ Abs(FIdx(a) - FIdx(b)) <= 1

Bad(k) == ~IsFinite(x[k]) \/ ~IsFinite(z[k])
BothNaN(k) == IsNaN(x[k]) /\ IsNaN(z[k])

\* C1: during the loop and after it x and z hold exactly N elements, and
\* once a step has run, with R finite at every step so far, x[0] == 0 and
\* z[0] == z0 (a NaN z0 compares unequal to itself, and gives a NaN R).
C1_LengthAndStart ==
  /\ Running => Length(x) = N /\ Length(z) = N
  /\ Running /\ i > 1 /\ rFinite =>
       /\ FEq(x[0], Fin(0, 0))
       /\ FEq(z[0], z0.f)

C1_Witness == pc = "done" /\ i = N /\ rFinite

\* The arguments of the helper that was called, and what it returned.
RotateCall == pc = "returned" /\ call.fn = "rotate"
argX == call.args[1].f
argZ == call.args[2].f
argXCenter == call.args[3].f
argZCenter == call.args[4].f
argAngle == call.args[5].f
retX == call.ret[1]
retZ == call.ret[2]
ZeroAngleCall == RotateCall /\ IsZero(argAngle)

\* C2 as stated: rotate with angle 0 returns exactly (x, z) for all finite
\* x, z, xCenter, zCenter.
C2_ExactIdentity ==
  ZeroAngleCall =>
    /\ Returned(retX) /\ Returned(retZ)
    /\ FEq(retX.f, argX)
    /\ FEq(retZ.f, argZ)

\* C2, amended: rotate with angle 0 raises nothing; when both differences
\* x - xCenter and z - zCenter are finite it returns the rounded sums
\* (xCenter + (x - xCenter), zCenter + (z - zCenter)), and it returns
\* exactly (x, z) when the centre is the origin.
C2_ZeroAngle ==
  ZeroAngleCall =>
    /\ Returned(retX) /\ Returned(retZ)
    /\ IsFinite(FSub(argX, argXCenter)) /\ IsFinite(FSub(argZ, argZCenter)) =>
         /\ Same(retX.f, FAdd(argXCenter, FSub(argX, argXCenter)))
         /\ Same(retZ.f, FAdd(argZCenter, FSub(argZ, argZCenter)))
    /\ IsZero(argXCenter) /\ IsZero(argZCenter) =>
         /\ FEq(retX.f, argX)
         /\ FEq(retZ.f, argZ)

\* A zero-angle rotation about a centre away from the origin that returns
\* finite coordinates other than (x, z).
C2_Witness ==
  /\ ZeroAngleCall
  /\ ~IsZero(argXCenter)
  /\ IsFinite(FSub(argX, argXCenter)) /\ IsFinite(FSub(argZ, argZCenter))
  /\ IsFinite(retX.f) /\ IsFinite(retZ.f)
  /\ ~FEq(retX.f, argX)

TrimCall == pc = "returned" /\ call.fn = "radius_at_trim"
ThreeTimes(f) == FMul(Fin(0, 3 * Unit), f)

\* C3 as stated: radius_of_curvature(zt, zt, 0) returns 3*zt for every
\* nonzero zt.
C3_ExactlyThreeTimes ==
  TrimCall => Returned(call.ret) /\ FEq(call.ret.f, ThreeTimes(call.args[2].f))

\* C3, amended: for every finite nonzero zt, radius_of_curvature(zt, zt, 0)
\* raises nothing and returns zt / (1./3.), which is the float 3*zt or one
\* of its two neighbours.
C3_ThreeTimesTrim ==
  TrimCall =>
    /\ Returned(call.ret)
    /\ Same(call.ret.f,
            FDiv(call.args[2].f, FDiv(Fin(0, Unit), Fin(0, 3 * Unit))))
    /\ Within1Ulp(call.ret.f, ThreeTimes(call.args[2].f))

\* A call at trim that returns the neighbour of 3*zt.
C3_Witness ==
  /\ TrimCall
  /\ Returned(call.ret)
  /\ IsFinite(call.ret.f)
  /\ ~FEq(call.ret.f, ThreeTimes(call.args[2].f))

ConstantCall == pc = "returned" /\ call.fn = "integration_constant"
TwoThirds == Rnd(0, 2 * Unit, 3)
Third == FDiv(Fin(0, Unit), Fin(0, 3 * Unit))

\* C4 as stated: with z0 == zt nonzero and theta0 == 0 the integration
\* constant is 2/3.
C4_ExactlyTwoThirds ==
  ConstantCall => Returned(call.ret) /\ FEq(call.ret.f, TwoThirds)

\* C4, amended: with z0 == zt finite and nonzero, theta0 == 0 and the
\* product 1./3.*z0 a normal float (no underflow), the integration
\* constant is the float 2/3 or one of its two neighbours.
C4_TwoThirds ==
  ConstantCall /\ FMul(Third, call.args[2].f).m >= MinNormal =>
    /\ Returned(call.ret)
    /\ Within1Ulp(call.ret.f, TwoThirds)

\* The constant at zt = z0 = 1.0: a neighbour of the float 2/3.
C4_Witness ==
  /\ ConstantCall
  /\ call.args[3].f = Fin(0, Unit)
  /\ Returned(call.ret)
  /\ ~FEq(call.ret.f, TwoThirds)
  /\ Within1Ulp(call.ret.f, TwoThirds)

\* C5: plot_flight_path never raises, for degenerate inputs too; it runs
\* all N-1 iterations and ends with x and z of length N.
C5_NeverRaises ==
  /\ pc # "raised"
  /\ pc = "done" => i = N /\ Length(x) = N /\ Length(z) = N

\* The run for zt = 1.0, z0 = the smallest positive float, theta0 = 0 has
\* ended with NaN in the path.
C5_Witness ==
  /\ pc = "done"
  /\ zt.f = Fin(0, Unit)
  /\ z0.f = Fin(0, 1)
  /\ IsZero(theta0.f)
  /\ BothNaN(N - 1)

\* C6 as stated: radius_of_curvature returns a float (finite, NaN or Inf)
\* and raises nothing for every numeric z, zt and C.
C6_NeverRaises ==
  pc = "returned" /\ call.fn = "radius_of_curvature" => Returned(call.ret)

\* C7: once a point is NaN or infinite, every later point written so far
\* has both coordinates NaN.
C7_NaNPropagates ==
  /\ pc = "loop" /\ i >= 2 /\ Bad(i - 2) => BothNaN(i - 1)
  /\ pc = "done" => \A k \in 0 .. N - 2 : Bad(k) => BothNaN(k + 1)

\* A finished run whose first point that is not finite came out of a step
\* that started from a finite point.
C7_Witness ==
  /\ pc = "done"
  /\ BothNaN(N - 1)
  /\ \E k \in 2 .. N - 2 : ~Bad(k - 1) /\ Bad(k)

\* C8: an iteration with index i writes x[i], z[i] and theta and leaves C,
\* zt, ds, the arguments and every other element of x and z as they were;
\* C is the value computed before the loop throughout the run.
C8_Frame ==
  /\ [][Step =>
          /\ C' = C /\ zt' = zt /\ ds' = ds /\ z0' = z0 /\ theta0' = theta0
          /\ x' = [x EXCEPT ![i] = x'[i]]
          /\ z' = [z EXCEPT ![i] = z'[i]]]_vars
  /\ [](Running => C = integration_constant(theta0, Np(z0.f), zt))

\* Two iterations have written two different finite points.
C8_Witness ==
  /\ pc = "loop"
  /\ i = 3
  /\ ~Bad(1) /\ ~Bad(2)
  /\ x[1] # x[2]
  /\ IsFinite(C.f)

\* The two sums of the rotation formula, every operation rounded.
RotateSums ==
  LET dx == FSub(argX, argXCenter)
      dz == FSub(argZ, argZCenter)
  IN  <<FAdd(argXCenter,
             FAdd(FMul(dx, FCos(argAngle)), FMul(dz, FSin(argAngle)))),
        FAdd(argZCenter,
             FAdd(FMul(FNeg(dx), FSin(argAngle)), FMul(dz, FCos(argAngle))))>>

\* numpy.pi/2, and a call that turns (xCenter + 1, zCenter) by it.
QuarterTurn == Div(numpy_pi, PyFloat(2, 1)).f

QuarterTurnCall ==
  /\ RotateCall
  /\ argAngle = QuarterTurn
  /\ FSub(argX, argXCenter) = Fin(0, Unit)
  /\ argZ = argZCenter

\* C9 as stated: rotate returns the two sums with a plus on the x cross
\* term and a minus on the z cross term, and a quarter turn maps
\* (xCenter + 1, zCenter) to exactly (xCenter, zCenter - 1).
C9_ExactQuarterTurn ==
  /\ RotateCall =>
       /\ Returned(retX) /\ Returned(retZ)
       /\ retX.f = RotateSums[1] /\ retZ.f = RotateSums[2]
  /\ QuarterTurnCall =>
       /\ FEq(retX.f, argXCenter)
       /\ FEq(retZ.f, FSub(argZCenter, Fin(0, Unit)))

\* C9, amended: rotate returns xCenter + (dx*cos + dz*sin) and
\* zCenter + (-dx*sin + dz*cos), each operation rounded; a quarter turn
\* with angle numpy.pi/2 maps (xCenter + 1, zCenter) to
\* (xCenter + cos(numpy.pi/2), zCenter - 1), where cos(numpy.pi/2) is a
\* small positive float and not zero.
C9_SignPattern ==
  /\ RotateCall =>
       /\ Returned(retX) /\ Returned(retZ)
       /\ retX.f = RotateSums[1] /\ retZ.f = RotateSums[2]
  /\ QuarterTurnCall =>
       /\ Same(retX.f, FAdd(argXCenter, FCos(QuarterTurn)))
       /\ Same(retZ.f, FSub(argZCenter, Fin(0, Unit)))
  /\ FCos(QuarterTurn).s = 0 /\ FCos(QuarterTurn).m > 0

\* A quarter turn about the origin: x comes out as cos(numpy.pi/2), not 0.
C9_Witness ==
  /\ QuarterTurnCall
  /\ IsZero(argXCenter)
  /\ retX.f = FCos(QuarterTurn)
  /\ ~FEq(retX.f, argXCenter)
  /\ FEq(retZ.f, FSub(argZCenter, Fin(0, Unit)))

\* theta0 + ds/R_lo + ... + ds/R_hi added in loop order, R_k computed from
\* z[k-1]; the range is folded in halves, the left half first (a raised
\* exception stays raised through every later addition).
RECURSIVE HeadingAfter(_, _, _)
HeadingAfter(lo, hi, acc) ==
  IF lo > hi THEN acc
  ELSE IF lo = hi
       THEN Add(acc, Div(ds, radius_of_curvature(getitem(z, lo - 1), zt, C)))
  ELSE LET mid == (lo + hi) \div 2
           left == HeadingAfter(lo, mid, acc)
       IN  IF left.t = "exc" THEN left ELSE HeadingAfter(mid + 1, hi, left)

\* C10: iteration i takes the normal from theta as it was, R from z[i-1],
\* the centre from the previous point, rotates the previous point by
\* dtheta = ds/R with ds = 1 and only then adds dtheta to theta; after the
\* loop theta is theta0 plus the sum of ds/R over the steps.
C10_Recurrence ==
  /\ [][Step =>
          LET ang == Add(theta, Div(numpy_pi, PyFloat(2, 1)))
              normal == <<cos(ang), Neg(sin(ang))>>
              Rv == radius_of_curvature(Np(z[i - 1]), zt, C)
              xc == Add(Np(x[i - 1]), Mul(normal[1], Rv))
              zc == Add(Np(z[i - 1]), Mul(normal[2], Rv))
              dtheta == Div(PyFloat(1, 1), Rv)
              p == rotate(Np(x[i - 1]), Np(z[i - 1]), xc, zc, dtheta)
          IN  /\ ds = PyFloat(1, 1)
              /\ x'[i] = p[1].f
              /\ z'[i] = p[2].f
              /\ R' = Rv
              /\ theta' = Add(theta, dtheta)]_vars
  /\ [](pc = "done" => theta = HeadingAfter(1, N - 1, theta0))

\* Two iterations have run on finite values and turned the heading.
C10_Witness ==
  /\ pc = "loop"
  /\ i = 3
  /\ ~Bad(1) /\ ~Bad(2)
  /\ IsFinite(theta.f)
  /\ theta.f # theta0.f
====
